---- MODULE Spec2Model ----
(*************************************************************************)
(* Release-notes generator (src/main2.py): provider detection, URL       *)
(* parsing, the GitHub / GitLab commit and merge-request fetchers, the   *)
(* file-change formatters and the entry point that writes the notes.     *)
(*                                                                       *)
(* Python strings are TLA+ strings; substring search, counting,          *)
(* splitting and joining are computed character by character.            *)
(*************************************************************************)
EXTENDS Integers, Sequences, FiniteSets, TLC

VARIABLES
    pc,                 \* position of the entry point (or "idle" / "unit")
    REPO_URL,           \* os.getenv("REPO_URL"), NONE when unset
    BRANCH_NAME,        \* os.getenv("BRANCH_NAME"), NONE when unset
    MAX_COMMITS,        \* int(os.getenv("MAX_COMMITS", 5))
    MAX_MERGE_REQUESTS, \* int(os.getenv("MAX_MERGE_REQUESTS", 5))
    provider,           \* result of identify_provider
    headers,            \* the headers dict shared by every request of the run
    repo_info,          \* result of parse_repo_url
    requests,           \* every HTTP GET issued so far, in order
    page,               \* response.json() of the list request being iterated
    idx,                \* position of the for loop in page (next item to take)
    details,            \* the local `details` of the current loop iteration
    acc,                \* the fetcher's local accumulator (commits/prs/mrs)
    commits,            \* the entry point's `commits`
    merge_requests,     \* the entry point's `merge_requests`
    release_notes,      \* the entry point's `release_notes`
    file,               \* release_notes.md: [opened, content]
    err,                \* the exception that ended the run, NONE otherwise
    call                \* a call of a pure function: [fn, arg, state, ret]

vars == <<pc, REPO_URL, BRANCH_NAME, MAX_COMMITS, MAX_MERGE_REQUESTS, provider,
          headers, repo_info, requests, page, idx, details, acc, commits,
          merge_requests, release_notes, file, err, call>>

NONE == "None"

\* a call of a pure function on its own, and no such call
Pending(fn, arg) == [fn |-> fn, arg |-> arg, state |-> "pending", ret |-> <<>>]

NoCall == [fn |-> "", arg |-> <<>>, state |-> "none", ret |-> <<>>]

(* Bounds of the model *)

\* longest list a provider list endpoint answers with
MaxResp == 2
\* longest generated diff text, in lines
MaxLines == 3

(* Python str operations *)

\* sub in s
Contains(s, sub) ==
    \E i \in 1..(Len(s) - Len(sub) + 1) : SubSeq(s, i, i + Len(sub) - 1) = sub

StartsWith(s, pre) ==
    Len(s) >= Len(pre) /\ SubSeq(s, 1, Len(pre)) = pre

EndsWith(s, suf) ==
    Len(s) >= Len(suf) /\ SubSeq(s, Len(s) - Len(suf) + 1, Len(s)) = suf

RECURSIVE CountFrom(_, _, _)
CountFrom(s, sub, i) ==
    IF i + Len(sub) - 1 > Len(s) THEN 0
    ELSE IF SubSeq(s, i, i + Len(sub) - 1) = sub
         THEN 1 + CountFrom(s, sub, i + Len(sub))
         ELSE CountFrom(s, sub, i + 1)

\* s.count(sub): non-overlapping occurrences, scanning from the left
Count(s, sub) == CountFrom(s, sub, 1)

RECURSIVE SplitFrom(_, _, _, _)
SplitFrom(s, sep, i, start) ==
    IF i > Len(s) THEN <<SubSeq(s, start, Len(s))>>
    ELSE IF SubSeq(s, i, i) = sep
         THEN <<SubSeq(s, start, i - 1)>> \o SplitFrom(s, sep, i + 1, i + 1)
         ELSE SplitFrom(s, sep, i + 1, start)

\* s.split(sep) for a one-character sep
Split(s, sep) == SplitFrom(s, sep, 1, 1)

RECURSIVE Join(_, _)
\* sep.join(parts)
Join(sep, parts) ==
    IF parts = <<>> THEN ""
    ELSE IF Len(parts) = 1 THEN parts[1]
    ELSE parts[1] \o sep \o Join(sep, Tail(parts))

RECURSIVE Strip(_, _)
\* s.strip(ch) for a one-character ch
Strip(s, ch) ==
    IF Len(s) > 0 /\ SubSeq(s, 1, 1) = ch THEN Strip(SubSeq(s, 2, Len(s)), ch)
    ELSE IF Len(s) > 0 /\ SubSeq(s, Len(s), Len(s)) = ch
         THEN Strip(SubSeq(s, 1, Len(s) - 1), ch)
         ELSE s

\* s.replace(old, new) for a one-character old
Replace(s, old, new) == Join(new, Split(s, old))

\* index of the first occurrence of one of chars at or after i, Len(s)+1 if none
RECURSIVE FindAny(_, _, _)
FindAny(s, chars, i) ==
    IF i > Len(s) THEN Len(s) + 1
    ELSE IF SubSeq(s, i, i) \in chars THEN i
    ELSE FindAny(s, chars, i + 1)

RECURSIVE FindSub(_, _, _)
FindSub(s, sub, i) ==
    IF i + Len(sub) - 1 > Len(s) THEN 0
    ELSE IF SubSeq(s, i, i + Len(sub) - 1) = sub THEN i
    ELSE FindSub(s, sub, i + 1)

\* urlparse(url).path for URLs of the form scheme://netloc/path?query#fragment
UrlPath(url) ==
    LET s     == FindSub(url, "://", 1)
        from  == IF s = 0 THEN 1 ELSE FindAny(url, {"/", "?", "#"}, s + 3)
        until == FindAny(url, {"?", "#"}, from)
    IN  SubSeq(url, from, until - 1)

(* Provider detection and URL parsing *)

identify_provider_first_gitlab(repo_url) ==
    IF Contains(repo_url, "gitlab.com") THEN [raised |-> FALSE, value |-> "gitlab"]
    ELSE IF Contains(repo_url, "github.com") THEN [raised |-> FALSE, value |-> "github"]
    ELSE [raised |-> TRUE, value |-> "ValueError"]

identify_provider(repo_url) ==
    IF Contains(repo_url, "github.com") THEN [raised |-> FALSE, value |-> "github"]
    ELSE IF Contains(repo_url, "gitlab.com") THEN [raised |-> FALSE, value |-> "gitlab"]
    ELSE [raised |-> TRUE, value |-> "ValueError"]

GITHUB_TOKEN == "ghp_token"
GITLAB_TOKEN == "glpat_token"

setup_headers(p) ==
    IF p = "github"
    THEN ("Authorization" :> ("Bearer " \o GITHUB_TOKEN))
         @@ ("Accept" :> "application/vnd.github+json")
    ELSE IF p = "gitlab"
    THEN ("PRIVATE-TOKEN" :> GITLAB_TOKEN) @@ ("Accept" :> "application/json")
    ELSE <<>>

\* the dict returned, as a sequence of values: <<owner, repo>> or <<project_id>>;
\* raised when parts[1] does not exist
parse_repo_url(repo_url, p) ==
    LET path  == Strip(UrlPath(repo_url), "/")
        parts == Split(path, "/")
        project_path == IF EndsWith(path, ".git")
                        THEN SubSeq(path, 1, Len(path) - 4) ELSE path
    IN  IF p = "github"
        THEN IF Len(parts) < 2
             THEN [raised |-> TRUE, value |-> <<"IndexError">>]
             ELSE [raised |-> FALSE, value |-> <<parts[1], parts[2]>>]
        ELSE IF p = "gitlab"
        THEN [raised |-> FALSE, value |-> <<Replace(project_path, "/", "%2F")>>]
        ELSE [raised |-> FALSE, value |-> <<>>]

(* File-change formatters *)

\* f.get(k, d)
Get(f, k, d) == IF k \in DOMAIN f THEN f[k] ELSE d

format_file_change(f) ==
    [filename  |-> f["filename"],
     status    |-> f["status"],
     additions |-> Get(f, "additions", 0),
     deletions |-> Get(f, "deletions", 0),
     changes   |-> Get(f, "changes", 0)]

format_file_changes_skip_unpatched(files) ==
    LET kept == SelectSeq(files, LAMBDA f : "patch" \in DOMAIN f)
    IN  [i \in 1..Len(kept) |-> format_file_change(kept[i])]

format_file_changes(files) ==
    [i \in 1..Len(files) |-> format_file_change(files[i])]

gitlab_change_type_deleted_first(file_diff) ==
    IF file_diff["deleted_file"] THEN "deleted"
    ELSE IF file_diff["new_file"] THEN "added"
    ELSE IF file_diff["renamed_file"] THEN "renamed"
    ELSE "modified"

gitlab_change_type(file_diff) ==
    IF file_diff["new_file"] THEN "added"
    ELSE IF file_diff["deleted_file"] THEN "deleted"
    ELSE IF file_diff["renamed_file"] THEN "renamed"
    ELSE "modified"

format_gitlab_file_change_any_plus(f) ==
    [filename  |-> f["new_path"],
     status    |-> gitlab_change_type(f),
     additions |-> Count(f["diff"], "+") - 1,
     deletions |-> Count(f["diff"], "-") - 1,
     changes   |-> Count(f["diff"], "+") + Count(f["diff"], "-") - 2]

format_gitlab_file_change(f) ==
    [filename  |-> f["new_path"],
     status    |-> gitlab_change_type(f),
     additions |-> Count(f["diff"], "\n+") - 1,
     deletions |-> Count(f["diff"], "\n-") - 1,
     changes   |-> Count(f["diff"], "\n+") + Count(f["diff"], "\n-") - 2]

format_gitlab_file_changes(changes) ==
    [i \in 1..Len(changes) |-> format_gitlab_file_change(changes[i])]

(* Data a provider may serve *)

GhFileFull ==
    [filename |-> "a.go", status |-> "modified", additions |-> 3,
     deletions |-> 1, changes |-> 4, patch |-> "@@ -1,2 +1,4 @@\n-old\n+new"]

\* a binary file: counters present, no patch
GhFileBinary ==
    [filename |-> "logo.png", status |-> "added", additions |-> 0,
     deletions |-> 0, changes |-> 0]

\* an entry without the numeric fields
GhFileBare ==
    [filename |-> "b.go", status |-> "renamed", patch |-> ""]

GhFiles == {GhFileFull, GhFileBinary, GhFileBare}

\* the example of the specification: three "+" lines, two "-" lines, none first
ExampleDiff ==
    "diff --git a/f b/f\n--- a/f\n+++ b/f\n@@ -1,2 +1,3 @@\n ctx\n-old\n+new\n+more"

\* the same change with the "---" header as the first line of the text
HeaderFirstDiff == "--- a/f\n+++ b/f\n@@ -1,2 +1,3 @@\n-old\n+new\n+more"

LineKinds == {"--- a/f", "+++ b/f", "@@ -1 +1 @@", "+new", "-old", " ctx"}

\* every text of at most MaxLines lines, plus the two examples
DiffTexts ==
    {Join("\n", ls) : ls \in UNION {[1..n -> LineKinds] : n \in 0..MaxLines}}
        \cup {ExampleDiff, HeaderFirstDiff}

GlEntry(path, nf, df, rf, text) ==
    [new_path |-> path, new_file |-> nf, deleted_file |-> df,
     renamed_file |-> rf, diff |-> text]

GlEntries ==
    {GlEntry("f", FALSE, FALSE, FALSE, t) : t \in DiffTexts}
        \cup {GlEntry("g", nf, df, rf, ExampleDiff) :
                  nf \in BOOLEAN, df \in BOOLEAN, rf \in BOOLEAN}

GlFileExample == GlEntry("f", FALSE, FALSE, FALSE, ExampleDiff)
GlFileRenamed == GlEntry("g", FALSE, FALSE, TRUE, "")
GlFileNew     == GlEntry("h", TRUE, FALSE, FALSE, "@@ -0,0 +1 @@\n+only")

(* The HTTP transport and what the providers answer *)

\* final status codes of a GET (the transport follows redirects itself)
Statuses == {200, 404, 500}

raise_for_status_never(code) == FALSE

\* response.raise_for_status(): TRUE when it raises HTTPError
raise_for_status(code) == code >= 400 /\ code < 600

Req(kind, target, url, hdrs, params, status, resp) ==
    [kind |-> kind, target |-> target, url |-> url, headers |-> hdrs,
     params |-> params, status |-> status, resp |-> resp]

\* the body of a response: the payload when the status is 2xx, else an error
\* document the fetchers never read
Body(status, payload) == IF status >= 200 /\ status < 300 THEN payload ELSE <<>>

Ids == 1..MaxResp
Shas == {"c0ffee" \o ToString(i) : i \in Ids}

DistinctSeqs(S) ==
    {q \in UNION {[1..n -> S] : n \in 0..MaxResp} :
        \A i, j \in DOMAIN q : i # j => q[i] # q[j]}

GithubCommitPages ==
    {[i \in DOMAIN q |-> [sha |-> q[i]]] : q \in DistinctSeqs(Shas)}

GitlabCommitPages ==
    {[i \in DOMAIN q |->
         [id |-> q[i], message |-> "msg " \o q[i], author_name |-> "alice",
          committed_date |-> "2024-05-01T10:00:00Z"]] : q \in DistinctSeqs(Shas)}

GithubPullPages ==
    {[i \in DOMAIN q |->
         [number |-> q[i], title |-> "PR " \o ToString(q[i]),
          user |-> [login |-> "bob"], merged_at |-> "2024-05-02T10:00:00Z"]] :
        q \in DistinctSeqs(Ids)}

GitlabMrPages ==
    {[i \in DOMAIN q |->
         [iid |-> q[i], title |-> "MR " \o ToString(q[i]),
          author |-> [username |-> "carol"], merged_at |-> "2024-05-03T10:00:00Z"]] :
        q \in DistinctSeqs(Ids)}

\* the file lists a GitHub commit or pull request may have
GhFileLists == {<<>>, <<GhFileBinary, GhFileFull, GhFileBare>>}

\* the diff entries a GitLab commit or merge request may have
GlFileLists == {<<>>, <<GlFileNew, GlFileExample, GlFileRenamed>>}

GithubCommitDetail(sha, files) ==
    [commit |-> [message |-> "msg " \o sha,
                 author |-> [name |-> "alice", date |-> "2024-05-01T10:00:00Z"]],
     files |-> files]

\* the diff-formatted rendering GitHub serves for a commit with these files
GithubDiffText(files) ==
    Join("\n", [i \in 1..Len(files) |->
                   "diff --git a/" \o files[i].filename \o " b/" \o files[i].filename
                       \o (IF "patch" \in DOMAIN files[i]
                           THEN "\n" \o files[i].patch ELSE "")])

(* The fetchers' pure parts *)

ListAppend_front(l, x) == <<x>> \o l

\* l.append(x)
ListAppend(l, x) == Append(l, x)

SharedAfterDiff_in_place(h) == [h EXCEPT !["Accept"] = "application/vnd.github.v3.diff"]

\* get_github_commit_diff works on headers.copy(): the caller's dict afterwards
SharedAfterDiff(h) == h

\* new_headers of get_github_commit_diff
DiffHeaders(h) == [h EXCEPT !["Accept"] = "application/vnd.github.v3.diff"]

\* "\n".join(f['patch'] for f in files if 'patch' in f)
JoinPatches(files) ==
    LET withPatch == SelectSeq(files, LAMBDA f : "patch" \in DOMAIN f)
    IN  Join("\n", [i \in 1..Len(withPatch) |-> withPatch[i].patch])

\* "\n".join(d['diff'] for d in diffs)
JoinDiffs(diffs) == Join("\n", [i \in 1..Len(diffs) |-> diffs[i].diff])

GithubApi == "https://api.github.com/repos/"
GitlabApi == "https://gitlab.com/api/v4/projects/"

GithubRepoUrl == GithubApi \o repo_info[1] \o "/" \o repo_info[2]
GitlabProjectUrl == GitlabApi \o repo_info[1]

(* The entry point *)

MissingEnv_url_only(url, branch) == url = NONE \/ url = ""

\* not REPO_URL or not BRANCH_NAME
MissingEnv(url, branch) ==
    url = NONE \/ url = "" \/ branch = NONE \/ branch = ""

DefaultMax == 5

RunUrls ==
    {NONE, "https://github.com/OwnerX/RepoY",
     "https://gitlab.com/group/sub/project.git",
     "https://github.com/OwnerX", "https://bitbucket.org/o/r"}

Init ==
    /\ pc = "start"
    /\ REPO_URL \in RunUrls
    /\ BRANCH_NAME \in {NONE, "main"}
    /\ MAX_COMMITS \in {1, DefaultMax}
    /\ MAX_MERGE_REQUESTS \in {1, DefaultMax}
    /\ provider = NONE /\ headers = <<>> /\ repo_info = <<>>
    /\ requests = <<>> /\ page = <<>> /\ idx = 0 /\ details = <<>>
    /\ acc = <<>> /\ commits = <<>> /\ merge_requests = <<>>
    /\ release_notes = NONE
    /\ file = [opened |-> FALSE, content |-> NONE]
    /\ err = NONE
    /\ call = NoCall

Env == <<REPO_URL, BRANCH_NAME, MAX_COMMITS, MAX_MERGE_REQUESTS>>

\* an uncaught exception: the frames and their locals are gone, the run ends
Abort(e) ==
    /\ pc' = "failed"
    /\ err' = e
    /\ page' = <<>> /\ idx' = 0 /\ details' = <<>> /\ acc' = <<>>

\* lines 328-334
ReadEnv ==
    /\ pc = "start"
    /\ IF MissingEnv(REPO_URL, BRANCH_NAME)
       THEN Abort("ValueError")
       ELSE pc' = "identify" /\ UNCHANGED <<err, page, idx, details, acc>>
    /\ UNCHANGED <<Env, provider, headers, repo_info, requests, commits,
                   merge_requests, release_notes, file, call>>

\* line 337
IdentifyProvider ==
    /\ pc = "identify"
    /\ LET r == identify_provider(REPO_URL)
       IN  IF r.raised
           THEN Abort(r.value) /\ UNCHANGED provider
           ELSE /\ provider' = r.value
                /\ pc' = "headers"
                /\ UNCHANGED <<err, page, idx, details, acc>>
    /\ UNCHANGED <<Env, headers, repo_info, requests, commits, merge_requests,
                   release_notes, file, call>>

\* line 338
SetupHeaders ==
    /\ pc = "headers"
    /\ headers' = setup_headers(provider)
    /\ pc' = "parse"
    /\ UNCHANGED <<Env, provider, repo_info, requests, page, idx, details, acc,
                   commits, merge_requests, release_notes, file, err, call>>

\* lines 339-341
ParseRepoUrl ==
    /\ pc = "parse"
    /\ LET r == parse_repo_url(REPO_URL, provider)
       IN  IF r.raised
           THEN Abort(r.value[1]) /\ UNCHANGED repo_info
           ELSE /\ repo_info' = r.value
                /\ pc' = "list_commits"
                /\ UNCHANGED <<err, page, idx, details, acc>>
    /\ UNCHANGED <<Env, provider, headers, requests, commits, merge_requests,
                   release_notes, file, call>>

RunFrame == <<Env, provider, repo_info, commits, merge_requests, release_notes,
              file, call>>

\* one requests.get + raise_for_status + reading the body: the request is
\* logged; a raising status aborts, otherwise the step continues with next
\* (a predicate over the primed locals)
Fetch(r, next) ==
    /\ requests' = Append(requests, r)
    /\ IF raise_for_status(r.status) THEN Abort("HTTPError") ELSE next /\ err' = err

(* get_github_commits, lines 121-142 *)

\* lines 125-130
GithubListCommits ==
    /\ pc = "list_commits" /\ provider = "github"
    /\ \E status \in Statuses, body \in GithubCommitPages :
          Fetch(Req("commits", "", GithubRepoUrl \o "/commits", headers,
                    [per_page |-> MAX_COMMITS, sha |-> BRANCH_NAME],
                    status, Body(status, body)),
                /\ page' = body /\ idx' = 1 /\ acc' = <<>> /\ details' = <<>>
                /\ pc' = "commit_next")
    /\ UNCHANGED <<RunFrame, headers>>

\* lines 131-133 and get_github_commit_details, lines 98-105
GithubCommitDetails ==
    /\ pc = "commit_next" /\ provider = "github" /\ idx <= Len(page)
    /\ LET sha == page[idx].sha
       IN  \E status \in Statuses, files \in GhFileLists :
              Fetch(Req("commit_details", sha,
                        GithubRepoUrl \o "/commits/" \o sha, headers, <<>>,
                        status, Body(status, GithubCommitDetail(sha, files))),
                    /\ details' = GithubCommitDetail(sha, files)
                    /\ pc' = "commit_diff"
                    /\ UNCHANGED <<page, idx, acc>>)
    /\ UNCHANGED <<RunFrame, headers>>

\* lines 134-141 and get_github_commit_diff, lines 108-118
GithubCommitDiff ==
    /\ pc = "commit_diff" /\ provider = "github"
    /\ LET sha  == page[idx].sha
           text == GithubDiffText(details.files)
       IN  \E status \in Statuses :
              Fetch(Req("commit_diff", sha, GithubRepoUrl \o "/commits/" \o sha,
                        DiffHeaders(headers), <<>>, status, Body(status, text)),
                    /\ acc' = ListAppend(acc,
                                 [sha     |-> sha,
                                  message |-> details.commit.message,
                                  author  |-> details.commit.author.name,
                                  date    |-> details.commit.author.date,
                                  files   |-> format_file_changes(details.files),
                                  diff    |-> text])
                    /\ idx' = idx + 1
                    /\ pc' = "commit_next"
                    /\ UNCHANGED <<page, details>>)
    /\ headers' = SharedAfterDiff(headers)
    /\ UNCHANGED RunFrame

(* get_gitlab_commits, lines 215-236 *)

\* lines 219-224
GitlabListCommits ==
    /\ pc = "list_commits" /\ provider = "gitlab"
    /\ \E status \in Statuses, body \in GitlabCommitPages :
          Fetch(Req("commits", "", GitlabProjectUrl \o "/repository/commits",
                    headers, [per_page |-> MAX_COMMITS, ref_name |-> BRANCH_NAME],
                    status, Body(status, body)),
                /\ page' = body /\ idx' = 1 /\ acc' = <<>> /\ details' = <<>>
                /\ pc' = "commit_next")
    /\ UNCHANGED <<RunFrame, headers>>

\* lines 225-227 and get_gitlab_commit_details, lines 194-201
GitlabCommitDetails ==
    /\ pc = "commit_next" /\ provider = "gitlab" /\ idx <= Len(page)
    /\ LET sha == page[idx].id
       IN  \E status \in Statuses, diffs \in GlFileLists :
              Fetch(Req("commit_details", sha,
                        GitlabProjectUrl \o "/repository/commits/" \o sha \o "/diff",
                        headers, <<>>, status, Body(status, diffs)),
                    /\ details' = [diff |-> diffs]
                    /\ pc' = "commit_diff"
                    /\ UNCHANGED <<page, idx, acc>>)
    /\ UNCHANGED <<RunFrame, headers>>

\* lines 228-235 and get_gitlab_commit_diff, lines 204-212
GitlabCommitDiff ==
    /\ pc = "commit_diff" /\ provider = "gitlab"
    /\ LET c   == page[idx]
           sha == c.id
       IN  \E status \in Statuses :
              Fetch(Req("commit_diff", sha,
                        GitlabProjectUrl \o "/repository/commits/" \o sha \o "/diff",
                        headers, <<>>, status, Body(status, details.diff)),
                    /\ acc' = ListAppend(acc,
                                 [sha     |-> sha,
                                  message |-> c.message,
                                  author  |-> c.author_name,
                                  date    |-> c.committed_date,
                                  files   |-> format_gitlab_file_changes(details.diff),
                                  diff    |-> JoinDiffs(details.diff)])
                    /\ idx' = idx + 1
                    /\ pc' = "commit_next"
                    /\ UNCHANGED <<page, details>>)
    /\ UNCHANGED <<RunFrame, headers>>

\* the loop is exhausted: return commits (line 142 or 236) into the entry
\* point's `commits` (line 347 or 351)
ReturnCommits ==
    /\ pc = "commit_next" /\ idx > Len(page)
    /\ commits' = acc
    /\ page' = <<>> /\ idx' = 0 /\ details' = <<>> /\ acc' = <<>>
    /\ pc' = "list_mrs"
    /\ UNCHANGED <<Env, provider, headers, repo_info, requests, merge_requests,
                   release_notes, file, err, call>>

(* get_github_pull_requests, lines 166-187 *)

\* lines 170-175
GithubListPulls ==
    /\ pc = "list_mrs" /\ provider = "github"
    /\ \E status \in Statuses, body \in GithubPullPages :
          Fetch(Req("mrs", 0, GithubRepoUrl \o "/pulls", headers,
                    [per_page |-> MAX_MERGE_REQUESTS, state |-> "closed",
                     base |-> BRANCH_NAME],
                    status, Body(status, body)),
                /\ page' = body /\ idx' = 1 /\ acc' = <<>> /\ details' = <<>>
                /\ pc' = "mr_next")
    /\ UNCHANGED <<RunFrame, headers>>

\* lines 176-178 and get_github_pr_details, lines 145-152
GithubPrDetails ==
    /\ pc = "mr_next" /\ provider = "github" /\ idx <= Len(page)
    /\ LET n == page[idx].number
       IN  \E status \in Statuses, files \in GhFileLists :
              Fetch(Req("mr_details", n,
                        GithubRepoUrl \o "/pulls/" \o ToString(n) \o "/files",
                        headers, <<>>, status, Body(status, files)),
                    /\ details' = [files |-> files]
                    /\ pc' = "mr_diff"
                    /\ UNCHANGED <<page, idx, acc>>)
    /\ UNCHANGED <<RunFrame, headers>>

\* lines 179-186 and get_github_pr_diff, lines 155-163
GithubPrDiff ==
    /\ pc = "mr_diff" /\ provider = "github"
    /\ LET pr == page[idx]
           n  == pr.number
       IN  \E status \in Statuses :
              Fetch(Req("mr_diff", n,
                        GithubRepoUrl \o "/pulls/" \o ToString(n) \o "/files",
                        headers, <<>>, status, Body(status, details.files)),
                    /\ acc' = ListAppend(acc,
                                 [id        |-> n,
                                  title     |-> pr.title,
                                  author    |-> pr.user.login,
                                  merged_at |-> pr.merged_at,
                                  files     |-> format_file_changes(details.files),
                                  diff      |-> JoinPatches(details.files)])
                    /\ idx' = idx + 1
                    /\ pc' = "mr_next"
                    /\ UNCHANGED <<page, details>>)
    /\ UNCHANGED <<RunFrame, headers>>

(* get_gitlab_merge_requests, lines 260-281 *)

\* lines 264-269
GitlabListMrs ==
    /\ pc = "list_mrs" /\ provider = "gitlab"
    /\ \E status \in Statuses, body \in GitlabMrPages :
          Fetch(Req("mrs", 0, GitlabProjectUrl \o "/merge_requests", headers,
                    [per_page |-> MAX_MERGE_REQUESTS, state |-> "merged",
                     target_branch |-> BRANCH_NAME],
                    status, Body(status, body)),
                /\ page' = body /\ idx' = 1 /\ acc' = <<>> /\ details' = <<>>
                /\ pc' = "mr_next")
    /\ UNCHANGED <<RunFrame, headers>>

\* lines 270-272 and get_gitlab_mr_details, lines 239-246
GitlabMrDetails ==
    /\ pc = "mr_next" /\ provider = "gitlab" /\ idx <= Len(page)
    /\ LET n == page[idx].iid
       IN  \E status \in Statuses, changes \in GlFileLists :
              Fetch(Req("mr_details", n,
                        GitlabProjectUrl \o "/merge_requests/" \o ToString(n)
                            \o "/changes",
                        headers, <<>>, status, Body(status, changes)),
                    /\ details' = [changes |-> changes]
                    /\ pc' = "mr_diff"
                    /\ UNCHANGED <<page, idx, acc>>)
    /\ UNCHANGED <<RunFrame, headers>>

\* lines 273-280 and get_gitlab_mr_diff, lines 249-257
GitlabMrDiff ==
    /\ pc = "mr_diff" /\ provider = "gitlab"
    /\ LET mr == page[idx]
           n  == mr.iid
       IN  \E status \in Statuses :
              Fetch(Req("mr_diff", n,
                        GitlabProjectUrl \o "/merge_requests/" \o ToString(n)
                            \o "/diffs",
                        headers, <<>>, status, Body(status, details.changes)),
                    /\ acc' = ListAppend(acc,
                                 [id        |-> n,
                                  title     |-> mr.title,
                                  author    |-> mr.author.username,
                                  merged_at |-> mr.merged_at,
                                  files     |-> format_gitlab_file_changes(details.changes),
                                  diff      |-> JoinDiffs(details.changes)])
                    /\ idx' = idx + 1
                    /\ pc' = "mr_next"
                    /\ UNCHANGED <<page, details>>)
    /\ UNCHANGED <<RunFrame, headers>>

\* the loop is exhausted: return prs / mrs (line 187 or 281) into the entry
\* point's `merge_requests` (line 348 or 352)
ReturnMergeRequests ==
    /\ pc = "mr_next" /\ idx > Len(page)
    /\ merge_requests' = acc
    /\ page' = <<>> /\ idx' = 0 /\ details' = <<>> /\ acc' = <<>>
    /\ pc' = "display"
    /\ UNCHANGED <<Env, provider, headers, repo_info, requests, commits,
                   release_notes, file, err, call>>

(* The rest of the entry point *)

\* lines 354-368: the two listings printed to standard output
Display ==
    /\ pc = "display"
    /\ pc' = "generate"
    /\ UNCHANGED <<Env, provider, headers, repo_info, requests, page, idx,
                   details, acc, commits, merge_requests, release_notes, file,
                   err, call>>

\* what llm.invoke answers with; its text is not the program's to decide
GeneratedNotes == {"# Release notes"}

\* lines 371-373 and generate_release_notes, lines 288-324: the call either
\* raises or returns the model's text
GenerateReleaseNotes ==
    /\ pc = "generate"
    /\ \/ Abort("GenerationError") /\ UNCHANGED release_notes
       \/ /\ \E text \in GeneratedNotes : release_notes' = text
          /\ pc' = "write"
          /\ UNCHANGED <<err, page, idx, details, acc>>
    /\ UNCHANGED <<Env, provider, headers, repo_info, requests, commits,
                   merge_requests, file, call>>

\* lines 376-377
WriteFile ==
    /\ pc = "write"
    /\ file' = [opened |-> TRUE, content |-> release_notes]
    /\ pc' = "done"
    /\ UNCHANGED <<Env, provider, headers, repo_info, requests, page, idx,
                   details, acc, commits, merge_requests, release_notes, err,
                   call>>

Next ==
    \/ ReadEnv \/ IdentifyProvider \/ SetupHeaders \/ ParseRepoUrl
    \/ GithubListCommits \/ GithubCommitDetails \/ GithubCommitDiff
    \/ GitlabListCommits \/ GitlabCommitDetails \/ GitlabCommitDiff
    \/ ReturnCommits
    \/ GithubListPulls \/ GithubPrDetails \/ GithubPrDiff
    \/ GitlabListMrs \/ GitlabMrDetails \/ GitlabMrDiff
    \/ ReturnMergeRequests
    \/ Display \/ GenerateReleaseNotes \/ WriteFile

Spec == Init /\ [][Next]_vars

(* Calls of the pure functions on their own *)

ProbeSchemes == {"https://", "http://", "ssh://git@"}
ProbeHosts ==
    {"github.com", "gitlab.com", "bitbucket.org", "GitHub.com",
     "gitlab.example.io", "www.github.com"}
ProbePaths ==
    {"", "/o/r", "/g/s/p.git", "/mirror/github.com/x", "/o/gitlab.com-backup"}
ProbeUrls == {s \o h \o p : s \in ProbeSchemes, h \in ProbeHosts, p \in ProbePaths}

\* the entry point has not started: every run variable at its initial value
RunIdle(p) ==
    /\ pc = p
    /\ REPO_URL = NONE /\ BRANCH_NAME = NONE
    /\ MAX_COMMITS = 5 /\ MAX_MERGE_REQUESTS = 5
    /\ provider = NONE /\ headers = <<>> /\ repo_info = <<>>
    /\ requests = <<>> /\ page = <<>> /\ idx = 0 /\ details = <<>>
    /\ acc = <<>> /\ commits = <<>> /\ merge_requests = <<>>
    /\ release_notes = NONE
    /\ file = [opened |-> FALSE, content |-> NONE]
    /\ err = NONE

RunVars ==
    <<pc, REPO_URL, BRANCH_NAME, MAX_COMMITS, MAX_MERGE_REQUESTS, provider,
      headers, repo_info, requests, page, idx, details, acc, commits,
      merge_requests, release_notes, file, err>>

InitProvider ==
    /\ RunIdle("unit")
    /\ \E u \in ProbeUrls : call = Pending("identify_provider", u)

CallIdentifyProvider ==
    /\ call.state = "pending" /\ call.fn = "identify_provider"
    /\ LET r == identify_provider(call.arg)
       IN  call' = [call EXCEPT
                       !.state = IF r.raised THEN "raised" ELSE "returned",
                       !.ret = r.value]
    /\ UNCHANGED RunVars

NextProvider == CallIdentifyProvider

SpecProvider == InitProvider /\ [][NextProvider]_vars

GhArgs ==
    {<<f>> : f \in GhFiles} \cup {<<f, g>> : f \in GhFiles, g \in GhFiles}
        \cup {<<>>}

GlArgs ==
    {<<f>> : f \in GlEntries}
        \cup {<<f, g>> : f \in {GlFileExample, GlFileRenamed, GlFileNew},
                         g \in {GlFileExample, GlFileRenamed, GlFileNew}}
        \cup {<<>>}

InitFormat ==
    /\ RunIdle("unit")
    /\ \/ \E a \in GhArgs : call = Pending("format_file_changes", a)
       \/ \E a \in GlArgs : call = Pending("format_gitlab_file_changes", a)

CallFormatFileChanges ==
    /\ call.state = "pending" /\ call.fn = "format_file_changes"
    /\ call' = [call EXCEPT !.state = "returned",
                            !.ret = format_file_changes(call.arg)]
    /\ UNCHANGED RunVars

CallFormatGitlabFileChanges ==
    /\ call.state = "pending" /\ call.fn = "format_gitlab_file_changes"
    /\ call' = [call EXCEPT !.state = "returned",
                            !.ret = format_gitlab_file_changes(call.arg)]
    /\ UNCHANGED RunVars

NextFormat == CallFormatFileChanges \/ CallFormatGitlabFileChanges

SpecFormat == InitFormat /\ [][NextFormat]_vars

Returned(fn) == call.state = "returned" /\ call.fn = fn

\* number of lines of text t that start with prefix
LinesStarting(t, prefix) ==
    LET ls == Split(t, "\n")
    IN  Cardinality({i \in 1..Len(ls) : StartsWith(ls[i], prefix)})

FirstLineStarts(t, prefix) == StartsWith(Split(t, "\n")[1], prefix)

C7_ChangeTypePriority ==
    Returned("format_gitlab_file_changes") =>
        \A i \in 1..Len(call.arg) :
            LET f == call.arg[i]
                s == call.ret[i].status
            IN  /\ f.new_file => s = "added"
                /\ (~f.new_file /\ f.deleted_file) => s = "deleted"
                /\ (~f.new_file /\ ~f.deleted_file /\ f.renamed_file)
                      => s = "renamed"
                /\ (~f.new_file /\ ~f.deleted_file /\ ~f.renamed_file)
                      => s = "modified"

C7_Witness ==
    /\ Returned("format_gitlab_file_changes")
    /\ \E i \in 1..Len(call.arg) :
          /\ call.arg[i].new_file /\ call.arg[i].deleted_file
          /\ call.arg[i].renamed_file
          /\ call.ret[i].status = "added"

\* the counts C8 states for one entry: additions = p - 1, deletions = m - 1,
\* changes = p + m - 2, p and m the numbers of lines starting with + and -
LineCountRule(f, out) ==
    LET p == LinesStarting(f.diff, "+")
        m == LinesStarting(f.diff, "-")
    IN  /\ out.additions = p - 1
        /\ out.deletions = m - 1
        /\ out.changes = p + m - 2

\* C8 as stated: the counts follow the numbers of lines starting with "+"
\* and "-", wherever those lines sit in the text.
C8_Original ==
    Returned("format_gitlab_file_changes") =>
        \A i \in 1..Len(call.arg) : LineCountRule(call.arg[i], call.ret[i])

\* C8 amended: when the first line of the diff text starts with neither "+"
\* nor "-", additions = p - 1, deletions = m - 1 and changes = p + m - 2.
C8_Amended ==
    Returned("format_gitlab_file_changes") =>
        \A i \in 1..Len(call.arg) :
            (~FirstLineStarts(call.arg[i].diff, "+")
                /\ ~FirstLineStarts(call.arg[i].diff, "-"))
            => LineCountRule(call.arg[i], call.ret[i])

C8_Witness ==
    /\ Returned("format_gitlab_file_changes")
    /\ \E i \in 1..Len(call.arg) :
          /\ LinesStarting(call.arg[i].diff, "+") = 3
          /\ LinesStarting(call.arg[i].diff, "-") = 2
          /\ call.ret[i].additions = 2
          /\ call.ret[i].deletions = 1
          /\ call.ret[i].changes = 3

(* Claims about the run of the entry point *)

CommitKinds == {"commits", "commit_details", "commit_diff"}

\* a response whose status is not 2xx
Failed(r) == ~(r.status >= 200 /\ r.status < 300)

\* the commit fetch has returned to the entry point
CommitsReturned ==
    \/ pc \in {"list_mrs", "mr_next", "mr_diff", "display", "generate",
               "write", "done"}
    \/ \E i \in 1..Len(requests) : requests[i].kind = "mrs"
    \/ err = "GenerationError"

CommitRequests == SelectSeq(requests, LAMBDA r : r.kind \in CommitKinds)

C2_GithubRequestOrder ==
    (provider = "github" /\ CommitsReturned) =>
        LET body == requests[1].resp
            n    == Len(body)
        IN  /\ requests[1].kind = "commits"
            /\ Len(CommitRequests) = 1 + 2 * n
            /\ \A i \in 1..n :
                  /\ requests[2 * i].kind = "commit_details"
                  /\ requests[2 * i].target = body[i].sha
                  /\ requests[2 * i].headers["Accept"] = "application/vnd.github+json"
                  /\ requests[2 * i + 1].kind = "commit_diff"
                  /\ requests[2 * i + 1].target = body[i].sha
                  /\ requests[2 * i + 1].headers["Accept"]
                        = "application/vnd.github.v3.diff"
                  /\ requests[2 * i + 1].url = requests[2 * i].url
            /\ Len(commits) = n
            /\ \A i \in 1..n : commits[i].sha = body[i].sha

C2_Witness ==
    /\ provider = "github" /\ pc = "list_mrs"
    /\ Len(requests[1].resp) = 2
    /\ Len(requests) = 5
    /\ Len(commits) = 2
    /\ commits[1].sha # commits[2].sha

\* C3 as stated: no fetcher returns more records than the requested maximum.
C3_Original ==
    /\ Len(commits) <= MAX_COMMITS
    /\ Len(merge_requests) <= MAX_MERGE_REQUESTS

\* REPO_URL or BRANCH_NAME unset, a host of neither provider, or a GitHub path
\* of one segment
BadInput ==
    \/ REPO_URL \in {NONE, ""} \/ BRANCH_NAME \in {NONE, ""}
    \/ (~Contains(REPO_URL, "github.com") /\ ~Contains(REPO_URL, "gitlab.com"))
    \/ REPO_URL = "https://github.com/OwnerX"

NonNegative(fc) == fc.additions >= 0 /\ fc.deletions >= 0 /\ fc.changes >= 0

\* C6 as stated: every FileChange of every returned Commit and MergeRequest
\* has non-negative additions, deletions and changes.
C6_Original ==
    /\ \A k \in 1..Len(commits) :
          \A j \in 1..Len(commits[k].files) : NonNegative(commits[k].files[j])
    /\ \A k \in 1..Len(merge_requests) :
          \A j \in 1..Len(merge_requests[k].files) :
              NonNegative(merge_requests[k].files[j])

\* the file-change list the provider served for a change
ServedFiles(kind, id) ==
    LET r == CHOOSE r \in {requests[i] : i \in 1..Len(requests)} :
                 r.kind = kind /\ r.target = id
    IN  IF provider = "github" /\ kind = "commit_details"
        THEN r.resp.files ELSE r.resp

ServedName(e) == IF provider = "github" THEN e.filename ELSE e.new_path

OnePerServedFile(files, served) ==
    /\ Len(files) = Len(served)
    /\ \A j \in 1..Len(served) : files[j].filename = ServedName(served[j])

\* C9: the files of every returned Commit and MergeRequest hold one FileChange
\* per entry of the list the provider served for that change, in its order,
\* a GitHub pull-request file without a patch included.
C9_OneFileChangePerEntry ==
    /\ \A k \in 1..Len(commits) :
          OnePerServedFile(commits[k].files,
                           ServedFiles("commit_details", commits[k].sha))
    /\ \A k \in 1..Len(merge_requests) :
          OnePerServedFile(merge_requests[k].files,
                           ServedFiles("mr_details", merge_requests[k].id))

\* a returned pull request with a patch-less file: present in files, absent
\* from the concatenated diff
C9_Witness ==
    /\ provider = "github"
    /\ \E k \in 1..Len(merge_requests) :
          LET served == ServedFiles("mr_details", merge_requests[k].id)
          IN  /\ \E j \in 1..Len(served) :
                    /\ "patch" \notin DOMAIN served[j]
                    /\ merge_requests[k].files[j].filename = served[j].filename
              /\ Len(merge_requests[k].files) = 3
              /\ merge_requests[k].diff = "@@ -1,2 +1,4 @@\n-old\n+new\n"

\* C10: in a GitHub run the shared headers keep Accept:
\* application/vnd.github+json and the Authorization value; only the commit
\* diff requests are sent with Accept: application/vnd.github.v3.diff.
C10_SharedHeadersUnchanged ==
    provider = "github" =>
        /\ DOMAIN headers # {} =>
              /\ headers["Accept"] = "application/vnd.github+json"
              /\ headers["Authorization"] = "Bearer ghp_token"
        /\ \A i \in 1..Len(requests) :
              /\ requests[i].headers["Authorization"] = "Bearer ghp_token"
              /\ requests[i].headers["Accept"] =
                    IF requests[i].kind = "commit_diff"
                    THEN "application/vnd.github.v3.diff"
                    ELSE "application/vnd.github+json"

\* a pull-request list request sent after two commits were processed
C10_Witness ==
    /\ provider = "github"
    /\ \E i, j, k \in 1..Len(requests) :
          /\ i < j /\ j < k
          /\ requests[i].kind = "commit_diff"
          /\ requests[j].kind = "commit_diff"
          /\ requests[k].kind = "mrs"
          /\ requests[k].headers["Accept"] = "application/vnd.github+json"

====
